---- MODULE Spec2Model ----
(***************************************************************************)
(* Model of 0x02-redis_basic: exercise.py (class Cache: store / get /      *)
(* get_str / get_int and the count_calls wrapper) and web.py (get_page     *)
(* wrapped by url_access_count).  Both modules talk to redis.Redis() with  *)
(* its default arguments, i.e. to the same database, modelled by db.       *)
(***************************************************************************)
EXTENDS Integers, Sequences, FiniteSets, TLC

(***************************************************************************)
(* Bounds of the model.                                                    *)
(***************************************************************************)
NumCallers == 2        \* concurrent callers of get_page / of Cache methods
NumUrls == 2           \* distinct URLs passed to get_page
NumKeys == 2           \* uuid4 values that store can draw in one run
MaxRequests == 2       \* HTTP GETs issued in one run
MaxCalls == 3          \* store calls between two flushes
MaxTextLen == 2        \* length of the texts of the round-trip tests
MaxInt == 120          \* largest magnitude of their integers

(***************************************************************************)
(* Python values.  tag is the Python type; s the items of a bytes (byte    *)
(* values) or of a str (code points); n the value of an int, or twice the  *)
(* value of a float (so floats are the multiples of 0.5).  An exception    *)
(* that leaves a call is a value whose tag is the exception's class.       *)
(***************************************************************************)
PyNone == [tag |-> "None", s |-> <<>>, n |-> 0]
PyBytes(b) == [tag |-> "bytes", s |-> b, n |-> 0]
PyStr(c) == [tag |-> "str", s |-> c, n |-> 0]
PyInt(i) == [tag |-> "int", s |-> <<>>, n |-> i]
PyFloat(h) == [tag |-> "float", s |-> <<>>, n |-> h]
PyRaise(cls) == [tag |-> cls, s |-> <<>>, n |-> 0]

IsNumber(v) == v.tag \in {"int", "float"}
Twice(v) == IF v.tag = "int" THEN 2 * v.n ELSE v.n

\* Python's a == b on these values: numbers compare by value, bytes and str
\* are never equal to each other, None equals only None.
PyEq(a, b) ==
    IF IsNumber(a) /\ IsNumber(b) THEN Twice(a) = Twice(b)
    ELSE a.tag = b.tag /\ a.s = b.s /\ a.n = b.n

(***************************************************************************)
(* Text <-> bytes conversions used by the two modules.                     *)
(***************************************************************************)
Abs(i) == IF i < 0 THEN -i ELSE i

RECURSIVE Digits(_)
\* ASCII decimal digits of a natural number
Digits(m) ==
    IF m < 10 THEN <<48 + m>> ELSE Digits(m \div 10) \o <<48 + (m % 10)>>

\* repr(i).encode() of an int
IntRepr(i) == IF i < 0 THEN <<45>> \o Digits(-i) ELSE Digits(i)

\* repr(f).encode() of the float h/2
FloatRepr(h) ==
    (IF h < 0 THEN <<45>> ELSE <<>>)
        \o Digits(Abs(h) \div 2) \o <<46>>
        \o (IF Abs(h) % 2 = 1 THEN <<53>> ELSE <<48>>)

\* one code point as UTF-8; <<>> for a surrogate, which cannot be encoded
Utf8Char(cp) ==
    IF cp < 128 THEN <<cp>>
    ELSE IF cp < 2048 THEN <<192 + (cp \div 64), 128 + (cp % 64)>>
    ELSE IF cp >= 55296 /\ cp <= 57343 THEN <<>>
    ELSE IF cp < 65536
         THEN <<224 + (cp \div 4096), 128 + ((cp \div 64) % 64), 128 + (cp % 64)>>
    ELSE <<240 + (cp \div 262144), 128 + ((cp \div 4096) % 64),
           128 + ((cp \div 64) % 64), 128 + (cp % 64)>>

RECURSIVE Utf8Encode(_)
\* str.encode("utf-8")
Utf8Encode(c) ==
    IF c = <<>> THEN <<>> ELSE Utf8Char(Head(c)) \o Utf8Encode(Tail(c))

IsCont(b, i) == i <= Len(b) /\ b[i] >= 128 /\ b[i] <= 191

\* number of bytes of the well-formed UTF-8 sequence starting at b[i], 0 if
\* the bytes at i are not one (strict decoding: no overlong forms, no
\* surrogates, nothing above U+10FFFF)
Utf8Width(b, i) ==
    LET b0 == b[i]
        b1 == IF i + 1 <= Len(b) THEN b[i + 1] ELSE 0
    IN  IF b0 < 128 THEN 1
        ELSE IF b0 >= 194 /\ b0 <= 223
             THEN IF IsCont(b, i + 1) THEN 2 ELSE 0
        ELSE IF b0 >= 224 /\ b0 <= 239
             THEN IF /\ IsCont(b, i + 1) /\ IsCont(b, i + 2)
                     /\ (b0 = 224 => b1 >= 160)
                     /\ (b0 = 237 => b1 <= 159)
                  THEN 3 ELSE 0
        ELSE IF b0 >= 240 /\ b0 <= 244
             THEN IF /\ IsCont(b, i + 1) /\ IsCont(b, i + 2) /\ IsCont(b, i + 3)
                     /\ (b0 = 240 => b1 >= 144)
                     /\ (b0 = 244 => b1 <= 143)
                  THEN 4 ELSE 0
        ELSE 0

Utf8Point(b, i, w) ==
    IF w = 1 THEN b[i]
    ELSE IF w = 2 THEN (b[i] - 192) * 64 + (b[i + 1] - 128)
    ELSE IF w = 3
         THEN (b[i] - 224) * 4096 + (b[i + 1] - 128) * 64 + (b[i + 2] - 128)
    ELSE (b[i] - 240) * 262144 + (b[i + 1] - 128) * 4096
             + (b[i + 2] - 128) * 64 + (b[i + 3] - 128)

RECURSIVE Utf8Valid(_, _)
Utf8Valid(b, i) ==
    IF i > Len(b) THEN TRUE
    ELSE LET w == Utf8Width(b, i)
         IN  w > 0 /\ Utf8Valid(b, i + w)

RECURSIVE Utf8Points(_, _)
Utf8Points(b, i) ==
    IF i > Len(b) THEN <<>>
    ELSE LET w == Utf8Width(b, i)
         IN  <<Utf8Point(b, i, w)>> \o Utf8Points(b, i + w)

\* bytes.decode("utf-8"): the str, or UnicodeDecodeError
Utf8Decode(b) ==
    IF Utf8Valid(b, 1) THEN PyStr(Utf8Points(b, 1))
    ELSE PyRaise("UnicodeDecodeError")

IsDigit(x) == x >= 48 /\ x <= 57
IsSpace(x) == x = 32 \/ (x >= 9 /\ x <= 13)

RECURSIVE LStrip(_)
LStrip(b) == IF b # <<>> /\ IsSpace(Head(b)) THEN LStrip(Tail(b)) ELSE b

RECURSIVE RStrip(_)
RStrip(b) ==
    IF b # <<>> /\ IsSpace(b[Len(b)]) THEN RStrip(SubSeq(b, 1, Len(b) - 1))
    ELSE b

\* digits with single underscores between them, as int() accepts
DigitGroupOk(b) ==
    /\ b # <<>>
    /\ \A i \in 1..Len(b) :
          \/ IsDigit(b[i])
          \/ b[i] = 95 /\ i > 1 /\ i < Len(b)
                /\ IsDigit(b[i - 1]) /\ IsDigit(b[i + 1])

RECURSIVE DigitsValue(_, _)
DigitsValue(b, acc) ==
    IF b = <<>> THEN acc
    ELSE IF Head(b) = 95 THEN DigitsValue(Tail(b), acc)
    ELSE DigitsValue(Tail(b), 10 * acc + (Head(b) - 48))

\* int(b) of a bytes b: the int, or ValueError
IntOfBytes(b) ==
    LET t == RStrip(LStrip(b))
        signed == t # <<>> /\ Head(t) \in {43, 45}
        body == IF signed THEN Tail(t) ELSE t
    IN  IF DigitGroupOk(body)
        THEN PyInt(IF signed /\ Head(t) = 45
                   THEN -DigitsValue(body, 0) ELSE DigitsValue(body, 0))
        ELSE PyRaise("ValueError")

(***************************************************************************)
(* The Redis database behind redis.Redis(): every key is either missing or *)
(* holds a byte string, with a remaining time-to-live (0: no expiry).      *)
(***************************************************************************)
TTL == 10              \* web.py: r.set(key, html_content, ex=10)

Callers == 1..NumCallers
Url(i) == "http://u" \o ToString(i)
Urls == {Url(i) : i \in 1..NumUrls}
UuidKey(i) == "uuid-" \o ToString(i)
UuidKeys == {UuidKey(i) : i \in 1..NumKeys}

\* key = "cached:" + url
CachedKey(u) == "cached:" \o u
\* key_count = "count:" + url
CountKey(u) == "count:" \o u
\* key = method.__qualname__ of the decorated method
QualName == "Cache.store"

AllKeys ==
    UuidKeys \cup {QualName}
        \cup {CachedKey(u) : u \in Urls} \cup {CountKey(u) : u \in Urls}

Missing == [present |-> FALSE, val |-> <<>>, ttl |-> 0]

\* GET key: the bytes, or None
RedisGet(d, k) == IF d[k].present THEN PyBytes(d[k].val) ELSE PyNone

\* the bytes redis-py sends for a value: bytes as they are, str as UTF-8,
\* int and float as their repr
RedisEncode(v) ==
    IF v.tag = "bytes" THEN v.s
    ELSE IF v.tag = "str" THEN Utf8Encode(v.s)
    ELSE IF v.tag = "int" THEN IntRepr(v.n)
    ELSE FloatRepr(v.n)

\* SET key value [EX ex]: replaces value and time-to-live
RedisSet(d, k, v, ex) ==
    [d EXCEPT ![k] = [present |-> TRUE, val |-> RedisEncode(v), ttl |-> ex]]

\* the integer a counter key holds, 0 when the key is missing
Counter(d, k) == IF d[k].present THEN IntOfBytes(d[k].val).n ELSE 0

\* INCR key: creates the counter at 0 if missing, keeps the time-to-live
RedisIncr(d, k) ==
    [d EXCEPT ![k] = [present |-> TRUE,
                      val |-> IntRepr(Counter(d, k) + 1),
                      ttl |-> d[k].ttl]]

\* FLUSHDB
RedisFlushDb(d) == [k \in DOMAIN d |-> Missing]

\* one time unit passes: the store drops the entries whose time is up
Elapse(d) ==
    [k \in DOMAIN d |->
        IF d[k].present /\ d[k].ttl = 1 THEN Missing
        ELSE IF d[k].present /\ d[k].ttl > 1
             THEN [d[k] EXCEPT !.ttl = @ - 1]
        ELSE d[k]]

(***************************************************************************)
(* State.                                                                  *)
(***************************************************************************)
VARIABLES
    db,            \* the Redis database: key -> entry
    pc,            \* web.py: where each caller is in the get_page wrapper
    url,           \* web.py: the wrapper's argument url
    html_content,  \* web.py: the wrapper's local html_content
    found,         \* history: what the call found under "cached:"+url
    count0,        \* history: "count:"+url as the call found it
    foreign,       \* history: increments of it by other callers since then
    requests,      \* history: HTTP GETs issued
    expired,       \* history: URLs whose entry the store dropped, not rewritten
    spc,           \* exercise.py: where each caller is in Cache.store
    issued,        \* history: every key a store call has returned
    stale,         \* history: the keys returned before the last flushdb
    calls,         \* history: store calls since the last flushdb
    input,         \* the text or integer a round-trip test starts from
    act            \* the last step: operation, caller, argument, result

vars ==
    <<db, pc, url, html_content, found, count0, foreign, requests, expired,
      spc, issued, stale, calls, input, act>>

webVars == <<pc, url, html_content, found, count0, foreign, requests, expired>>
cacheVars == <<spc, issued, stale, calls, input>>

\* the record of a step: operation, caller, argument (a URL or a key) and
\* result; data is used by Cache.store, fn and applied by Cache.get, found,
\* count0 and foreign by a get_page call that returns after a miss (the
\* call's history, as it ends)
Ev(op, p, arg, out) ==
    [op |-> op, p |-> p, arg |-> arg, out |-> out, data |-> PyNone,
     fn |-> "", applied |-> FALSE, found |-> "", count0 |-> 0, foreign |-> 0]

\* the state once the modules are loaded and Cache() has flushed the database
Loaded ==
    /\ db = [k \in AllKeys |-> Missing]
    /\ pc = [p \in Callers |-> "idle"]
    /\ url = [p \in Callers |-> ""]
    /\ html_content = [p \in Callers |-> PyNone]
    /\ found = [p \in Callers |-> ""]
    /\ count0 = [p \in Callers |-> 0]
    /\ foreign = [p \in Callers |-> 0]
    /\ requests = 0
    /\ expired = {}
    /\ spc = [p \in Callers |-> "idle"]
    /\ issued = {}
    /\ stale = {}
    /\ calls = 0
    /\ act = Ev("start", 0, "", PyNone)

Init == Loaded /\ input = PyNone

(***************************************************************************)
(* web.py: get_page(url), i.e. the wrapper of url_access_count around the  *)
(* HTTP GET.  The wrapper's store operations (GET, INCR, SET) are separate *)
(* steps; the HTTP request touches no shared state and is taken together   *)
(* with the GET that precedes it.                                          *)
(***************************************************************************)
\* the bodies a successful GET can return (response.text): "" and "h" + e-acute
Pages == {PyStr(<<>>), PyStr(<<104, 233>>)}

\* str(e) of the requests.RequestException raised by requests.get (timeout,
\* connection error) or by raise_for_status (4XX/5XX): "timeout", "404"
Failures == {<<116, 105, 109, 101, 111, 117, 116>>, <<52, 48, 52>>}

\* f"Error fetching page: {e}"
ErrorText(e) ==
    PyStr(<<69, 114, 114, 111, 114, 32, 102, 101, 116, 99, 104, 105, 110,
            103, 32, 112, 97, 103, 101, 58, 32>> \o e)

\* truth value of r.get(key) in "if cached_value:"
Truthy(v) == v.tag = "bytes" /\ Len(v.s) > 0

\* cached_value.decode()
Decode(v) == Utf8Decode(v.s)

\* variant: a hit renews the expiry of the entry it read (GETEX)
AfterHitRenewed(d, u) ==
    [d EXCEPT ![CachedKey(u)].ttl = TTL]

\* the store after a hit: r.get(key) is the only command issued
AfterHit(d, u) == d

\* variant: the except branch caches the error text as if it were the page
AfterFetchErrorCached(d, u, e) == RedisSet(d, CachedKey(u), ErrorText(e), TTL)

\* the store after the except branch has returned the error text
AfterFetchError(d, u, e) == d

\* variant: one counter serves every URL
IncrCountShared(d, u) == RedisIncr(d, CountKey(Url(1)))

\* variant: the increment is left out
IncrCountSkipped(d, u) == d

\* variant: the counter is set to 1 instead of incremented
IncrCountReset(d, u) == RedisSet(d, CountKey(u), PyInt(1), 0)

\* r.incr(key_count)
IncrCount(d, u) == RedisIncr(d, CountKey(u))

\* variant: the entry is written only if none is present (SET NX)
SetCachedFirstWins(d, u, html) ==
    IF d[CachedKey(u)].present THEN d
    ELSE RedisSet(d, CachedKey(u), html, TTL)

\* variant: the entry is written without ex=10
SetCachedNoExpiry(d, u, html) == RedisSet(d, CachedKey(u), html, 0)

\* r.set(key, html_content, ex=10)
SetCached(d, u, html) == RedisSet(d, CachedKey(u), html, TTL)

\* history: what a call for u finds under "cached:"+u
Found(u) ==
    IF db[CachedKey(u)].present THEN "empty"
    ELSE IF u \in expired THEN "expired" ELSE "absent"

\* cache hit: return cached_value.decode().  A call that returns at once
\* changes nothing of its caller, whose name is not recorded.
GetPageHit(p, u) ==
    /\ pc[p] = "idle"
    /\ Truthy(RedisGet(db, CachedKey(u)))
    /\ db' = AfterHit(db, u)
    /\ act' = Ev("get_page.hit", 0, u, Decode(RedisGet(db, CachedKey(u))))
    /\ UNCHANGED <<webVars, cacheVars>>

\* cache miss, the request raises: return f"Error fetching page: {e}"
GetPageError(p, u) ==
    /\ pc[p] = "idle"
    /\ ~Truthy(RedisGet(db, CachedKey(u)))
    /\ requests < MaxRequests
    /\ \E e \in Failures :
          /\ db' = AfterFetchError(db, u, e)
          /\ act' = Ev("get_page.error", 0, u, ErrorText(e))
    /\ requests' = requests + 1
    /\ UNCHANGED <<pc, url, html_content, found, count0, foreign, expired,
                   cacheVars>>

\* cache miss, the request succeeds: html_content = method(url)
GetPageFetch(p, u) ==
    /\ pc[p] = "idle"
    /\ ~Truthy(RedisGet(db, CachedKey(u)))
    /\ requests < MaxRequests
    /\ \E t \in Pages : html_content' = [html_content EXCEPT ![p] = t]
    /\ pc' = [pc EXCEPT ![p] = "incr"]
    /\ url' = [url EXCEPT ![p] = u]
    /\ found' = [found EXCEPT ![p] = Found(u)]
    /\ count0' = [count0 EXCEPT ![p] = Counter(db, CountKey(u))]
    /\ foreign' = [foreign EXCEPT ![p] = 0]
    /\ requests' = requests + 1
    /\ act' = Ev("get_page.fetch", p, u, PyNone)
    /\ UNCHANGED <<db, expired, cacheVars>>

\* r.incr(key_count)
GetPageIncr(p) ==
    /\ pc[p] = "incr"
    /\ db' = IncrCount(db, url[p])
    /\ pc' = [pc EXCEPT ![p] = "set"]
    /\ foreign' = [q \in Callers |->
                     IF q # p /\ pc[q] # "idle" /\ url[q] = url[p]
                     THEN foreign[q] + 1 ELSE foreign[q]]
    /\ act' = Ev("get_page.incr", p, url[p], PyNone)
    /\ UNCHANGED <<url, html_content, found, count0, requests, expired,
                   cacheVars>>

\* r.set(key, html_content, ex=10); return html_content
GetPageSet(p) ==
    /\ pc[p] = "set"
    /\ db' = SetCached(db, url[p], html_content[p])
    /\ act' = [Ev("get_page.miss", p, url[p], html_content[p])
                  EXCEPT !.found = found[p], !.count0 = count0[p],
                         !.foreign = foreign[p]]
    /\ pc' = [pc EXCEPT ![p] = "idle"]
    /\ url' = [url EXCEPT ![p] = ""]
    /\ html_content' = [html_content EXCEPT ![p] = PyNone]
    /\ found' = [found EXCEPT ![p] = ""]
    /\ count0' = [count0 EXCEPT ![p] = 0]
    /\ foreign' = [foreign EXCEPT ![p] = 0]
    /\ expired' = expired \ {url[p]}
    /\ UNCHANGED <<requests, cacheVars>>

\* a time unit passes
Tick ==
    /\ \E k \in AllKeys : db[k].present /\ db[k].ttl > 0
    /\ db' = Elapse(db)
    /\ expired' = expired \cup {u \in Urls : db[CachedKey(u)].present
                                              /\ ~db'[CachedKey(u)].present}
    /\ act' = Ev("tick", 0, "", PyNone)
    /\ UNCHANGED <<pc, url, html_content, found, count0, foreign, requests,
                   cacheVars>>

NextWeb ==
    \/ \E p \in Callers, u \in Urls : GetPageHit(p, u)
    \/ \E p \in Callers, u \in Urls : GetPageError(p, u)
    \/ \E p \in Callers, u \in Urls : GetPageFetch(p, u)
    \/ \E p \in Callers : GetPageIncr(p)
    \/ \E p \in Callers : GetPageSet(p)
    \/ Tick

SpecWeb == Init /\ [][NextWeb]_vars

(***************************************************************************)
(* exercise.py: class Cache.  store is the second definition of the class  *)
(* body, wrapped by count_calls: the wrapper's INCR and the method's SET   *)
(* are separate steps.  Nothing reads the argument data before the SET, so *)
(* its value is drawn there.  get, get_str and get_int are one GET each.   *)
(***************************************************************************)
\* arguments of store: "h" + e-acute, b"42", -7, 1.5
Data ==
    {PyStr(<<104, 233>>), PyBytes(<<52, 50>>), PyInt(-7), PyFloat(3)}

\* the keys get, get_str and get_int are called with
GetKeys == UuidKeys \cup {QualName}

\* variant: the constructor deletes the records and keeps the counter
InitDbKeepCounter(d) ==
    [k \in AllKeys |-> IF k = QualName THEN d[k] ELSE Missing]

\* variant: the constructor does not flush
InitDbNoFlush(d) == d

\* self._redis.flushdb()
InitDb(d) == RedisFlushDb(d)

\* variant: the wrapper sets the counter to 1 instead of incrementing it
CountCallOnce(d) == RedisSet(d, QualName, PyInt(1), 0)

\* key = method.__qualname__; self._redis.incr(key)
CountCall(d) == RedisIncr(d, QualName)

\* variant: the record is written under another uuid than the one returned
WriteRecordOtherKey(d, key, v) ==
    RedisSet(d, CHOOSE k \in UuidKeys : k # key, v, 0)

\* self._redis.set(key, data)
WriteRecord(d, key, v) == RedisSet(d, key, v, 0)

\* variant: the error is caught and the SET tried again, with success
AfterWriteErrorRetried(d, key, v) == RedisSet(d, key, v, 0)

\* the store after self._redis.set has raised: the exception leaves store
\* and the wrapper, nothing catches it
AfterWriteError(d, key, v) == d

\* variant: get_str decodes each byte as one character (latin-1)
ApplyFnLatin1(fn, value) ==
    IF fn = "decode" THEN PyStr(value.s) ELSE IntOfBytes(value.s)

\* variant: get_int converts the digits and drops the sign
ApplyFnUnsigned(fn, value) ==
    IF fn = "decode" THEN Utf8Decode(value.s)
    ELSE LET r == IntOfBytes(value.s)
         IN  IF r.tag = "int" THEN PyInt(Abs(r.n)) ELSE r

\* the decoders of get_str and get_int: d.decode('utf-8'), int(d)
ApplyFn(fn, value) ==
    IF fn = "decode" THEN Utf8Decode(value.s) ELSE IntOfBytes(value.s)

\* variant: fn is called before the value is tested for None
CacheGetEager(d, key, fn) ==
    LET value == RedisGet(d, key)
    IN  IF fn # "" THEN [out |-> ApplyFn(fn, value), applied |-> TRUE]
        ELSE [out |-> value, applied |-> FALSE]

\* variant: without fn the value is decoded as UTF-8
CacheGetDecoded(d, key, fn) ==
    LET value == RedisGet(d, key)
    IN  IF value = PyNone THEN [out |-> PyNone, applied |-> FALSE]
        ELSE IF fn # "" THEN [out |-> ApplyFn(fn, value), applied |-> TRUE]
        ELSE [out |-> Utf8Decode(value.s), applied |-> FALSE]

\* Cache.get(key, fn): the result, and whether fn was called
CacheGet(d, key, fn) ==
    LET value == RedisGet(d, key)
    IN  IF value = PyNone THEN [out |-> PyNone, applied |-> FALSE]
        ELSE IF fn # "" THEN [out |-> ApplyFn(fn, value), applied |-> TRUE]
        ELSE [out |-> value, applied |-> FALSE]

\* Cache(): a client is constructed and the database flushed
CacheInit ==
    /\ db' = InitDb(db)
    /\ stale' = issued
    /\ calls' = 0
    /\ act' = Ev("__init__", 0, "", PyNone)
    /\ UNCHANGED <<spc, issued, input, webVars>>

\* store(data), the wrapper: self._redis.incr(key), then the method is called
StoreCount(p) ==
    /\ spc[p] = "idle"
    /\ calls < MaxCalls
    /\ db' = CountCall(db)
    /\ spc' = [spc EXCEPT ![p] = "set"]
    /\ calls' = calls + 1
    /\ act' = Ev("store.incr", p, "", PyNone)
    /\ UNCHANGED <<issued, stale, input, webVars>>

\* store(data), the method: key = str(uuid.uuid4()); set; return key.
\* The result's tag "key" stands for the str named by arg.
StoreWrite(p, v) ==
    /\ spc[p] = "set"
    /\ \E key \in UuidKeys \ issued :
          /\ db' = WriteRecord(db, key, v)
          /\ issued' = issued \cup {key}
          /\ act' = [Ev("store", p, key, PyRaise("key")) EXCEPT !.data = v]
    /\ spc' = [spc EXCEPT ![p] = "idle"]
    /\ UNCHANGED <<stale, calls, input, webVars>>

\* store(data), the method, when the SET fails: redis.ConnectionError
StoreWriteError(p, v) ==
    /\ spc[p] = "set"
    /\ \E key \in UuidKeys \ issued :
          /\ db' = AfterWriteError(db, key, v)
          /\ act' = [Ev("store", p, "", PyRaise("ConnectionError"))
                        EXCEPT !.data = v]
    /\ spc' = [spc EXCEPT ![p] = "idle"]
    /\ UNCHANGED <<issued, stale, calls, input, webVars>>

\* get(key), get_str(key), get_int(key), by a caller that is not inside
\* store; a read, so which caller it is leaves no trace
Get(key, fn) ==
    /\ {p \in Callers : spc[p] = "idle"} # {}
    /\ LET r == CacheGet(db, key, fn)
       IN  act' = [Ev("get", 0, key, r.out)
                      EXCEPT !.fn = fn, !.applied = r.applied]
    /\ UNCHANGED <<db, cacheVars, webVars>>

NextCache ==
    \/ CacheInit
    \/ \E p \in Callers : StoreCount(p)
    \/ \E p \in Callers, v \in Data : StoreWrite(p, v)
    \/ \E p \in Callers, v \in Data : StoreWriteError(p, v)
    \/ \E key \in GetKeys : Get(key, "")
    \/ \E key \in GetKeys : Get(key, "decode")
    \/ \E key \in GetKeys : Get(key, "int")

SpecCache == Init /\ [][NextCache]_vars

(***************************************************************************)
(* Both modules in one deployment: web.py's r and Cache's self._redis are  *)
(* both redis.Redis() with its defaults, the same database of the same     *)
(* server.  One thread calls get_page, another one uses a Cache to store   *)
(* b"42" and read it back, all within the time-to-live of the pages.       *)
(***************************************************************************)
NextBoth ==
    \/ \E u \in Urls : GetPageHit(1, u)
    \/ \E u \in Urls : GetPageError(1, u)
    \/ \E u \in Urls : GetPageFetch(1, u)
    \/ GetPageIncr(1)
    \/ GetPageSet(1)
    \/ CacheInit
    \/ StoreCount(2)
    \/ StoreWrite(2, PyBytes(<<52, 50>>))
    \/ \E key \in UuidKeys : Get(key, "")

SpecBoth == Init /\ [][NextBoth]_vars

(***************************************************************************)
(* Round trips through store and get_str / get_int: a test picks a text s  *)
(* or an integer n, then calls store(s.encode()) or store(str(n).encode()) *)
(* and reads the returned keys back, all in one thread.                    *)
(***************************************************************************)
\* code points at the ends of the 1-, 2-, 3- and 4-byte ranges of UTF-8 and
\* on both sides of the surrogate gap (a lone surrogate has no encoding:
\* s.encode() raises and store is never reached)
Alphabet ==
    {0, 127, 128, 2047, 2048, 55295, 57344, 65535, 65536, 1114111}

Texts == UNION {[1..n -> Alphabet] : n \in 0..MaxTextLen}

TestInputs ==
    {PyStr(c) : c \in Texts} \cup {PyInt(n) : n \in (-MaxInt)..MaxInt}

\* s.encode() of a str, str(n).encode() of an int
TestArg(v) ==
    IF v.tag = "str" THEN PyBytes(Utf8Encode(v.s)) ELSE PyBytes(IntRepr(v.n))

InitRoundTrip == Loaded /\ input \in TestInputs

NextRoundTrip ==
    \/ StoreCount(1)
    \/ StoreWrite(1, TestArg(input))
    \/ \E key \in UuidKeys : Get(key, "")
    \/ \E key \in UuidKeys : Get(key, "decode")
    \/ \E key \in UuidKeys : Get(key, "int")

SpecRoundTrip == InitRoundTrip /\ [][NextRoundTrip]_vars

(***************************************************************************)
(* Properties of get_page, checked under SpecWeb.                          *)
(***************************************************************************)
CallOps == {"get_page.hit", "get_page.error", "get_page.fetch"}
ErrorTexts == {ErrorText(e) : e \in Failures}

\* C1: whenever get_page(u) is called while "cached:"+u is present in the
\* store, whatever its content, the call returns the decoded entry, leaves
\* the database (the counter "count:"+u included) unchanged and issues no
\* HTTP request.
C1_HitWheneverPresent ==
    [][(act'.op \in CallOps /\ db[CachedKey(act'.arg)].present)
          => /\ act'.op = "get_page.hit"
             /\ act'.out = Utf8Decode(db[CachedKey(act'.arg)].val)
             /\ db' = db
             /\ requests' = requests]_vars

\* C2: when a get_page(u) call that missed the cache and fetched text t
\* returns, it returns t, "cached:"+u holds t with a time-to-live of 10, and
\* "count:"+u is one more than the call found it (1 if it was missing),
\* increments made meanwhile by other callers counted apart.
C2_MissEffects ==
    [][\A p \in Callers :
          (pc[p] = "set" /\ pc'[p] = "idle")
             => /\ act'.op = "get_page.miss" /\ act'.p = p
                /\ act'.out = html_content[p]
                /\ db'[CachedKey(url[p])] =
                      [present |-> TRUE,
                       val |-> Utf8Encode(html_content[p].s),
                       ttl |-> TTL]
                /\ Counter(db', CountKey(url[p]))
                      = count0[p] + foreign[p] + 1]_vars

\* a first successful fetch of a URL has just returned: counter 1
C2_Witness ==
    /\ act.op = "get_page.miss"
    /\ act.found = "absent" /\ act.count0 = 0 /\ act.foreign = 0
    /\ act.out = PyStr(<<104, 233>>)
    /\ db[CachedKey(act.arg)].val = <<104, 195, 169>>
    /\ db[CachedKey(act.arg)].ttl = TTL
    /\ Counter(db, CountKey(act.arg)) = 1

\* C3: a get_page(u) call whose request fails returns the error text, does
\* not raise, leaves "count:"+u and "cached:"+u as they were; and no cache
\* hit ever returns an error text.
C3_FetchErrorEffects ==
    [][/\ act'.op = "get_page.error"
          => /\ act'.out \in ErrorTexts
             /\ Counter(db', CountKey(act'.arg)) = Counter(db, CountKey(act'.arg))
             /\ db'[CachedKey(act'.arg)] = db[CachedKey(act'.arg)]
             /\ db' = db
             /\ pc' = pc
       /\ act'.op = "get_page.hit" => act'.out \notin ErrorTexts]_vars

\* a failed fetch of a URL never fetched before has just returned
C3_Witness ==
    /\ act.op = "get_page.error"
    /\ act.out = ErrorText(<<52, 48, 52>>)
    /\ ~db[CachedKey(act.arg)].present
    /\ ~db[CountKey(act.arg)].present

\* C7: the store drops a cache entry 10 time units after it was written;
\* the next get_page(u) whose request would succeed then fetches again, and
\* when it returns the counter has risen by one (other callers apart) and
\* the entry is back with a time-to-live of 10.
C7_RefetchAfterExpiry ==
    [][/\ act'.op = "tick"
          => \A u \in Urls :
                LET e == db[CachedKey(u)]
                IN  e.present =>
                       IF e.ttl = 1
                       THEN ~db'[CachedKey(u)].present /\ u \in expired'
                       ELSE db'[CachedKey(u)] = [e EXCEPT !.ttl = e.ttl - 1]
       /\ (act'.op \in {"get_page.hit", "get_page.fetch"}
              /\ act'.arg \in expired /\ ~db[CachedKey(act'.arg)].present)
          => /\ act'.op = "get_page.fetch"
             /\ requests' = requests + 1
             /\ found'[act'.p] = "expired"
       /\ \A p \in Callers :
             (pc[p] = "set" /\ pc'[p] = "idle" /\ found[p] = "expired")
                => /\ Counter(db', CountKey(url[p]))
                         = count0[p] + foreign[p] + 1
                   /\ db'[CachedKey(url[p])].present
                   /\ db'[CachedKey(url[p])].ttl = TTL
                   /\ url[p] \notin expired']_vars

\* the two-fetch scenario: the second fetch, made after the entry expired,
\* has just returned and the counter went from 1 to 2
C7_Witness ==
    /\ act.op = "get_page.miss"
    /\ act.found = "expired" /\ act.count0 = 1 /\ act.foreign = 0
    /\ requests = 2
    /\ Counter(db, CountKey(act.arg)) = 2
    /\ db[CachedKey(act.arg)].ttl = TTL

(***************************************************************************)
(* Properties of class Cache, checked under SpecCache.                     *)
(***************************************************************************)
\* C4: between two flushes the counter kept under "Cache.store" equals the
\* number of store calls made since the flush, whoever made them and however
\* their steps interleave: k calls raise it by k.
C4_CounterCountsCalls == Counter(db, QualName) = calls

\* two callers are inside store at once and both calls have been counted
C4_Witness ==
    /\ calls = 2
    /\ Counter(db, QualName) = 2
    /\ \A p \in {1, 2} : spc[p] = "set"

\* C5 as stated: get(key) returns None for every key no store call returned,
\* the counter's key "Cache.store" included.
C5_AbsentUnlessIssued ==
    (act.op = "get" /\ act.arg \notin issued) => act.out = PyNone

\* C5 as amended: get(key) returns None for every key no store call returned
\* other than "Cache.store"; for "Cache.store" it returns None until store is
\* first called after a flush and the decimal count of the calls from then on.
C5_AbsentUnlessIssuedOrCounter ==
    (act.op = "get" /\ act.arg \notin issued)
       => IF act.arg # QualName THEN act.out = PyNone /\ ~act.applied
          ELSE IF calls = 0 THEN act.out = PyNone
          ELSE act.fn = "" => act.out = PyBytes(IntRepr(calls))

\* records exist and get has just returned None for a key never returned
C5_Witness ==
    /\ act.op = "get" /\ act.fn = ""
    /\ act.arg \in UuidKeys \ issued
    /\ act.out = PyNone
    /\ \E k \in issued : db[k].present

\* C6 as stated: get(store(v)) with no decoder is equal to v for every
\* supported v (str, bytes, int, float).
C6_RoundTripIdentity ==
    [][(act'.op = "store" /\ act'.out.tag = "key")
          => PyEq(CacheGet(db', act'.arg, "").out, act'.data)]_vars

\* C6 as amended: get(store(v)) with no decoder is the bytes redis-py wrote
\* for v (v itself for bytes, the UTF-8 of a str, the repr of an int or
\* float); it is equal to v exactly when v is a bytes.
C6_RoundTripBytes ==
    [][(act'.op = "store" /\ act'.out.tag = "key")
          => LET v == act'.data
                 got == CacheGet(db', act'.arg, "").out
             IN  /\ got = PyBytes(RedisEncode(v))
                 /\ PyEq(got, v) <=> v.tag = "bytes"]_vars

\* store(-7) has just returned a key under which get finds b"-7"
C6_Witness ==
    /\ act.op = "store" /\ act.out.tag = "key"
    /\ CacheGet(db, act.arg, "").out = PyBytes(<<45, 55>>)

\* C8: once Cache() has flushed the database, get returns None for every key
\* a store call had returned before, with or without a decoder.
C8_FlushedKeysAbsent ==
    /\ \A k \in stale : ~db[k].present
    /\ (act.op = "get" /\ act.arg \in stale) => act.out = PyNone

\* get has just returned None for a key store returned before the flush,
\* while a record written after the flush is there
C8_Witness ==
    /\ act.op = "get" /\ act.arg \in stale /\ act.out = PyNone
    /\ \E k \in issued \ stale : db[k].present

\* C9: for a key that is not in the store, get, get_str and get_int return
\* None, raise nothing and do not call the decoder; a decoder is called only
\* on a value that was found.
C9_MissingKeyNoDecode ==
    act.op = "get"
       => /\ ~db[act.arg].present => (act.out = PyNone /\ ~act.applied)
          /\ act.applied => (db[act.arg].present /\ act.fn # "")
          /\ (db[act.arg].present /\ act.fn # "") => act.applied

\* get_int has just returned None for a missing key
C9_Witness ==
    /\ act.op = "get" /\ act.fn = "int"
    /\ ~db[act.arg].present
    /\ act.out = PyNone /\ ~act.applied

\* C10: when the SET of a store call fails, the call ends with the error: it
\* returns no key, writes no record and makes no second attempt.
C10_WriteErrorPropagates ==
    [][\A p \in Callers :
          (spc[p] = "set" /\ spc'[p] = "idle" /\ act'.out.tag # "key")
             => /\ act'.op = "store" /\ act'.p = p
                /\ act'.out = PyRaise("ConnectionError")
                /\ act'.arg = ""
                /\ issued' = issued
                /\ db' = db]_vars

\* a store call has just failed: counted, but no record and no key
C10_Witness ==
    /\ act.op = "store" /\ act.out = PyRaise("ConnectionError")
    /\ calls = 1 /\ Counter(db, QualName) = 1
    /\ issued = {}
    /\ \A k \in UuidKeys : ~db[k].present

\* C15 as stated: no operation of the class, the constructor included, ever
\* lowers the counter kept under "Cache.store".
C15_CounterNeverDecreases ==
    [][Counter(db', QualName) >= Counter(db, QualName)]_vars

\* C15: store, get, get_str and get_int never lower the counter kept under
\* "Cache.store"; the constructor, which flushes the database, deletes it, so
\* that it reads 0 again.
C15_CounterResetOnlyByInit ==
    [][/\ act'.op # "__init__"
          => Counter(db', QualName) >= Counter(db, QualName)
       /\ act'.op = "__init__"
          => (~db'[QualName].present /\ Counter(db', QualName) = 0)]_vars

\* a Cache has just been constructed after a store call had returned a key:
\* the counter, at least 1 before, is gone
C15_Witness ==
    /\ act.op = "__init__"
    /\ stale # {}
    /\ ~db[QualName].present
    /\ Counter(db, QualName) = 0

(***************************************************************************)
(* Further properties of get_page, checked under SpecWeb.                  *)
(***************************************************************************)
Min(a, b) == IF a <= b THEN a ELSE b

WebKeys == {CachedKey(u) : u \in Urls} \cup {CountKey(u) : u \in Urls}

CacheKeys == UuidKeys \cup {QualName}

WebOps ==
    {"get_page.hit", "get_page.error", "get_page.fetch", "get_page.incr",
     "get_page.miss"}

CacheOps == {"__init__", "store.incr", "store", "get"}

\* C13: the steps of get_page are not atomic.  Two callers that are both
\* past their increment for the same URL have both missed and fetched, and
\* the counter has risen by 2 since the earlier of the two misses; each
\* write replaces what is there, so after a write the entry holds the
\* content of that write, the last one.
C13_RaceLastWriteWins ==
    /\ \A p \in Callers : \A q \in Callers \ {p} :
          (pc[p] = "set" /\ pc[q] = "set" /\ url[p] = url[q])
             => Counter(db, CountKey(url[p]))
                   >= Min(count0[p], count0[q]) + 2
    /\ act.op = "get_page.miss"
          => db[CachedKey(act.arg)] =
                [present |-> TRUE, val |-> Utf8Encode(act.out.s), ttl |-> TTL]

\* the second of two overlapping calls for a URL never fetched before has
\* just returned: both requested, both incremented (counter 2), both wrote,
\* and the entry holds the content of this last write
C13_Witness ==
    /\ act.op = "get_page.miss"
    /\ act.found = "absent" /\ act.count0 = 0 /\ act.foreign = 1
    /\ requests = 2
    /\ \A p \in Callers : pc[p] = "idle"
    /\ Counter(db, CountKey(act.arg)) = 2
    /\ act.out = PyStr(<<104, 233>>)
    /\ db[CachedKey(act.arg)].val = <<104, 195, 169>>
    /\ \A u \in Urls \ {act.arg} : ~db[CountKey(u)].present

\* C14: a cache hit of get_page leaves the whole store as it was: the
\* cached content, its remaining time-to-live and every counter.
C14_HitChangesNothing ==
    [][act'.op = "get_page.hit" => db' = db]_vars

\* a hit has just returned an entry whose time-to-live had run down to 1,
\* and the entry still has 1 left
C14_Witness ==
    /\ act.op = "get_page.hit"
    /\ act.out = PyStr(<<104, 233>>)
    /\ db[CachedKey(act.arg)].present
    /\ db[CachedKey(act.arg)].ttl = 1
    /\ Counter(db, CountKey(act.arg)) = 1

\* C17: in every state of get_page's callers, whatever the interleaving and
\* the expiries, a present entry "cached:"+u implies "count:"+u >= 1.
C17_CachedImpliesCounted ==
    \A u \in Urls :
       db[CachedKey(u)].present
          => (db[CountKey(u)].present /\ Counter(db, CountKey(u)) >= 1)

\* an entry is present with its counter at 1 while another caller, who
\* missed before the entry was written, has fetched and not yet incremented
C17_Witness ==
    /\ act.op = "get_page.miss"
    /\ db[CachedKey(act.arg)].present
    /\ Counter(db, CountKey(act.arg)) = 1
    /\ \E p \in Callers : pc[p] = "incr" /\ url[p] = act.arg

\* C19: a step of get_page(u), on a hit, a miss or a failed request, leaves
\* the entry, its remaining time-to-live and the counter of every other URL
\* as they were.
C19_OtherUrlsUntouched ==
    [][act'.op \in WebOps
          => \A v \in Urls \ {act'.arg} :
                /\ db'[CachedKey(v)] = db[CachedKey(v)]
                /\ db'[CountKey(v)] = db[CountKey(v)]]_vars

\* get_page(u) has just cached a page while the entry of another URL, written
\* earlier, keeps its shorter remaining time and its counter of 1
C19_Witness ==
    /\ act.op = "get_page.miss"
    /\ \E v \in Urls \ {act.arg} :
          /\ db[CachedKey(v)].present
          /\ db[CachedKey(v)].ttl < TTL
          /\ Counter(db, CountKey(v)) = 1
    /\ db[CachedKey(act.arg)].ttl = TTL
    /\ Counter(db, CountKey(act.arg)) = 1

(***************************************************************************)
(* Further properties of class Cache, checked under SpecCache.             *)
(***************************************************************************)
\* the records store has written since the last flush
Records == {k \in UuidKeys : db[k].present}

\* C18: in every state the number of records written since the last flush is
\* at most the counter kept under "Cache.store", and the two are equal only
\* when no store call is in progress.
C18_RecordsAtMostCounter ==
    /\ Cardinality(Records) <= Counter(db, QualName)
    /\ Cardinality(Records) = Counter(db, QualName)
          => \A p \in Callers : spc[p] = "idle"

(***************************************************************************)
(* Properties of the two modules together, checked under SpecBoth.         *)
(***************************************************************************)
\* C16: no step of a Cache method (the constructor, store, get) changes a
\* cached page or a per-URL counter, and no step of get_page changes a
\* record or the counter of store.
C16_NoInteraction ==
    [][/\ act'.op \in CacheOps
          => \A k \in WebKeys : db'[k] = db[k]
       /\ act'.op \in WebOps
          => \A k \in CacheKeys : db'[k] = db[k]]_vars

(***************************************************************************)
(* Properties of the round trips, checked under SpecRoundTrip.             *)
(***************************************************************************)
\* C11: for every text s, get_str(store(s.encode())) returns s.
C11_TextRoundTrip ==
    (act.op = "get" /\ act.fn = "decode" /\ act.arg \in issued
        /\ input.tag = "str")
       => (act.out = input /\ act.applied)

\* get_str has just returned a text of a 2-byte and a 4-byte character
C11_Witness ==
    /\ act.op = "get" /\ act.fn = "decode" /\ act.arg \in issued
    /\ input = PyStr(<<2047, 65536>>)
    /\ db[act.arg].val = <<223, 191, 240, 144, 128, 128>>
    /\ act.out = PyStr(<<2047, 65536>>)

\* C12: for every integer n, negative ones included,
\* get_int(store(str(n).encode())) returns n.
C12_IntRoundTrip ==
    (act.op = "get" /\ act.fn = "int" /\ act.arg \in issued
        /\ input.tag = "int")
       => (act.out = input /\ act.applied)

\* get_int has just returned -107, stored as b"-107"
C12_Witness ==
    /\ act.op = "get" /\ act.fn = "int" /\ act.arg \in issued
    /\ input = PyInt(-107)
    /\ db[act.arg].val = <<45, 49, 48, 55>>
    /\ act.out = PyInt(-107)

====
